---- MODULE Spec2Model ----
(***************************************************************************)
(* Model of Utils::InstrusiveSortedDeque<T> (IntrusiveSortedDeque.h).      *)
(*                                                                         *)
(* A record of type T is [key, del]: GetKey() reads key, IsDeleted() reads *)
(* del and Remove() sets del.  The underlying std::deque<T> is a sequence  *)
(* of records; a StdDeque iterator is a position 1..Len+1, Len+1 being     *)
(* StdDeque::end().  A quick key is its m_index, a 0-based position.       *)
(*                                                                         *)
(* assert() is active: a failed assertion terminates the process, which    *)
(* the model records as status = "aborted".  Undefined behaviour (an       *)
(* access outside the stored range) is recorded as status = "undefined".   *)
(* In both cases no further call is made on the container.                 *)
(*                                                                         *)
(* m_nMarkedAsErased is a size_type (unsigned).  The model keeps the       *)
(* representative of its value modulo 2^64 that lies in the signed range,  *)
(* so that decrementing 0 gives -1 (the unsigned 2^64-1), and an unsigned  *)
(* "> 0" is "# 0".                                                         *)
(***************************************************************************)
EXTENDS Integers, Sequences, FiniteSets, TLC

\* Keys offered to the container are 1..MaxKey.
MaxKey == 5

Keys == 1..MaxKey

INVALID_INDEX == -1

MIN_VALID_INDEX == 0

VARIABLES
    deque,              \* the StdDeque base: physical records, front first
    m_nMarkedAsErased,  \* the tombstone counter
    status,             \* "ok", "aborted" (failed assert) or "undefined"
    qk,                 \* m_index of the quick key the caller holds
    call,               \* the last call made: name, argument, results
    other,              \* the StdDeque base of a second container
    other_nMarkedAsErased   \* the tombstone counter of the second container

vars == <<deque, m_nMarkedAsErased, status, qk, call,
          other, other_nMarkedAsErased>>

----------------------------------------------------------------------------
\* The record type T

Record(k) == [key |-> k, del |-> FALSE]

GetKey(r) == r.key

IsDeleted(r) == r.del

Remove(r) == [r EXCEPT !.del = TRUE]

FilterPredicate(r) == ~IsDeleted(r)

----------------------------------------------------------------------------
\* Observers

capacity(d) == Len(d)

empty(d) == Len(d) = 0

End(d) == Len(d) + 1

\* size(): the value returned and whether its assertions passed.
size(d, n) ==
    LET baseSize == capacity(d)
        netSize  == baseSize - n
    IN  IF baseSize <= 1
        THEN [value |-> baseSize, asserts |-> (0 = n)]
        ELSE [value |-> netSize,  asserts |-> (netSize > 1)]

\* ValidateEdge(front()) / ValidateEdge(back()): TRUE iff the assert passes.
ValidateEdge(d, pos) == empty(d) \/ ~IsDeleted(d[pos])

\* boost::make_filter_iterator(baseIter, end()): the constructor advances
\* the base iterator to the first position accepted by the predicate.
RECURSIVE MakeFilteredIter(_, _)
MakeFilteredIter(d, baseIter) ==
    IF baseIter # End(d) /\ ~FilterPredicate(d[baseIter])
    THEN MakeFilteredIter(d, baseIter + 1)
    ELSE baseIter

\* lower_bound whose comparison is value.GetKey() <= k
RECURSIVE LowerBound_upper(_, _, _, _)
LowerBound_upper(d, first, len, k) ==
    IF len <= 0 THEN first
    ELSE LET half == len \div 2
             mid  == first + half
         IN  IF GetKey(d[mid]) <= k
             THEN LowerBound_upper(d, mid + 1, len - half - 1, k)
             ELSE LowerBound_upper(d, first, half, k)

\* std::lower_bound(beginIter, endIter, k, FindComp) as a binary search.
RECURSIVE LowerBound(_, _, _, _)
LowerBound(d, first, len, k) ==
    IF len <= 0 THEN first
    ELSE LET half == len \div 2
             mid  == first + half
         IN  IF GetKey(d[mid]) < k
             THEN LowerBound(d, mid + 1, len - half - 1, k)
             ELSE LowerBound(d, first, half, k)

DoFindUnchecked(d, beginIter, endIter, k) ==
    LowerBound(d, beginIter, endIter - beginIter, k)

\* DoFind that compares k < back().GetKey()
DoFind_strict(d, k) ==
    IF ~empty(d) /\ k < GetKey(d[Len(d)])
    THEN LET result == DoFindUnchecked(d, 1, End(d), k)
         IN  IF GetKey(d[result]) = k
             THEN [found |-> TRUE, it |-> result, asserts |-> TRUE]
             ELSE [found |-> FALSE, it |-> End(d), asserts |-> TRUE]
    ELSE [found |-> FALSE, it |-> End(d), asserts |-> TRUE]

\* DoFind over [begin(), end()): found, the iterator stored in result, and
\* whether the assertion result != end() passed.
DoFind(d, k) ==
    IF ~empty(d) /\ k <= GetKey(d[Len(d)])
    THEN LET result == DoFindUnchecked(d, 1, End(d), k)
         IN  IF result = End(d)
             THEN [found |-> FALSE, it |-> End(d), asserts |-> FALSE]
             ELSE IF GetKey(d[result]) = k /\ End(d) # result
                  THEN [found |-> TRUE, it |-> result, asserts |-> TRUE]
                  ELSE [found |-> FALSE, it |-> End(d), asserts |-> TRUE]
    ELSE [found |-> FALSE, it |-> End(d), asserts |-> TRUE]

----------------------------------------------------------------------------
\* Edge compaction.  A container value is [deque, erased].

\* TrimFront that leaves a deleted front in place
TrimFront_skipped(c) == c

RECURSIVE TrimFront(_)
TrimFront(c) ==
    IF ~empty(c.deque) /\ IsDeleted(Head(c.deque))
    THEN TrimFront([deque |-> Tail(c.deque), erased |-> c.erased - 1])
    ELSE c

\* TrimBack that sweeps every deleted record out of the deque
TrimBack_sweep(c) ==
    LET kept == SelectSeq(c.deque, LAMBDA r : ~IsDeleted(r))
    IN  [deque |-> kept, erased |-> c.erased - (Len(c.deque) - Len(kept))]

\* TrimBack that forgets --m_nMarkedAsErased
RECURSIVE TrimBack_nodecrement(_)
TrimBack_nodecrement(c) ==
    IF ~empty(c.deque) /\ IsDeleted(c.deque[Len(c.deque)])
    THEN TrimBack_nodecrement([deque |-> SubSeq(c.deque, 1, Len(c.deque) - 1),
                               erased |-> c.erased])
    ELSE c

RECURSIVE TrimBack(_)
TrimBack(c) ==
    IF ~empty(c.deque) /\ IsDeleted(c.deque[Len(c.deque)])
    THEN TrimBack([deque |-> SubSeq(c.deque, 1, Len(c.deque) - 1),
                   erased |-> c.erased - 1])
    ELSE c

\* The outcome of a call: the container, the status and the results.
Outcome(d, n, st, ok, it) ==
    [deque |-> d, erased |-> n, status |-> st, ok |-> ok, it |-> it]

\* erase(iterator) that removes the record with StdDeque::erase
erase_iterator_physical(d, n, it) ==
    IF ~IsDeleted(d[it])
    THEN LET c == TrimBack(TrimFront(
                    [deque  |-> SubSeq(d, 1, it - 1) \o SubSeq(d, it + 1, Len(d)),
                     erased |-> n]))
         IN  Outcome(c.deque, c.erased, "ok", TRUE,
                     capacity(d) - capacity(c.deque))
    ELSE Outcome(d, n, "ok", FALSE, 0)

\* erase(iterator) that does not test IsDeleted() first
erase_iterator_unchecked(d, n, it) ==
    LET marked == [deque  |-> [d EXCEPT ![it] = Remove(d[it])],
                   erased |-> n + 1]
        c == TrimBack(TrimFront(marked))
    IN  Outcome(c.deque, c.erased, "ok", FALSE, 0)

\* bool erase(typename StdDeque::iterator it), it dereferenceable.  Besides
\* the value returned (ok), the outcome tells in it how many records the
\* call discarded.
erase_iterator(d, n, it) ==
    IF ~IsDeleted(d[it])
    THEN LET marked == [deque  |-> [d EXCEPT ![it] = Remove(d[it])],
                        erased |-> n + 1]
             c == TrimBack(TrimFront(marked))
         IN  Outcome(c.deque, c.erased, "ok", TRUE,
                     capacity(d) - capacity(c.deque))
    ELSE IF capacity(d) > 1 /\ n # 0
            /\ ValidateEdge(d, 1) /\ ValidateEdge(d, Len(d))
         THEN Outcome(d, n, "ok", FALSE, 0)
         ELSE Outcome(d, n, "aborted", FALSE, 0)

\* bool erase(key_type k)
erase_key(d, n, k) ==
    LET f == DoFind(d, k)
    IN  IF ~f.asserts THEN Outcome(d, n, "aborted", FALSE, 0)
        ELSE IF f.found THEN erase_iterator(d, n, f.it)
        ELSE Outcome(d, n, "ok", FALSE, 0)


\* erase(quick_key_type) that erases the record after the one designated
erase_quick_key_offbyone(d, n, index) ==
    IF index >= 0 /\ index < Len(d)
    THEN erase_iterator(d, n, IF index + 2 <= Len(d) THEN index + 2 ELSE 1)
    ELSE Outcome(d, n, "undefined", FALSE, 0)

\* bool erase(quick_key_type k): begin() + k.m_index is dereferenced without
\* any check, so an index outside the stored range is undefined behaviour.
erase_quick_key(d, n, index) ==
    IF index >= 0 /\ index < Len(d)
    THEN erase_iterator(d, n, 1 + index)
    ELSE Outcome(d, n, "undefined", FALSE, 0)

\* pop_front without the trimming pass
pop_front_notrim(d, n) ==
    IF ~empty(d) /\ ~IsDeleted(Head(d))
    THEN Outcome(Tail(d), n, "ok", FALSE, 1)
    ELSE Outcome(d, n, "aborted", FALSE, 0)

\* void pop_front(); it tells how many records the call discarded.
pop_front(d, n) ==
    IF ~empty(d) /\ ~IsDeleted(Head(d))
    THEN LET c == TrimFront([deque |-> Tail(d), erased |-> n])
         IN  Outcome(c.deque, c.erased, "ok", FALSE,
                     capacity(d) - capacity(c.deque))
    ELSE Outcome(d, n, "aborted", FALSE, 0)

\* void pop_back(); it tells how many records the call discarded.
pop_back(d, n) ==
    IF ~empty(d) /\ ~IsDeleted(d[Len(d)])
    THEN LET c == TrimBack([deque |-> SubSeq(d, 1, Len(d) - 1), erased |-> n])
         IN  Outcome(c.deque, c.erased, "ok", FALSE,
                     capacity(d) - capacity(c.deque))
    ELSE Outcome(d, n, "aborted", FALSE, 0)

\* void clear()
clear(d, n) == Outcome(<<>>, 0, "ok", FALSE, 0)

\* StdDeque::emplace(it, value): value is stored at position it, the records
\* from it on move one position towards the back.
StdEmplace(d, it, r) == SubSeq(d, 1, it - 1) \o <<r>> \o SubSeq(d, it, Len(d))

\* emplace_back that keeps the appended tail copy after the relocation
emplace_back_nopop(d, n, k) ==
    LET appended == Append(d, Record(k))
        back     == Len(appended)
    IN  IF empty(d) THEN Outcome(appended, n, "ok", FALSE, back)
        ELSE IF k < GetKey(d[Len(d)])
        THEN LET it == DoFindUnchecked(appended, 1, back, k)
             IN  IF GetKey(appended[it]) > k
                 THEN Outcome(StdEmplace(appended, it, appended[back]),
                              n, "ok", FALSE, it)
                 ELSE Outcome(appended, n, "aborted", FALSE, 0)
        ELSE IF k = GetKey(d[Len(d)])
        THEN Outcome(appended, n, "aborted", FALSE, 0)
        ELSE Outcome(appended, n, "ok", FALSE, back)

\* emplace_back with its assertions compiled out
emplace_back_unasserted(d, n, k) ==
    LET appended == Append(d, Record(k))
        back     == Len(appended)
    IN  IF ~empty(d) /\ k <= GetKey(d[Len(d)])
        THEN LET it    == DoFindUnchecked(appended, 1, back, k)
                 moved == StdEmplace(appended, it, appended[back])
             IN  Outcome(SubSeq(moved, 1, Len(moved) - 1), n, "ok", FALSE, it)
        ELSE Outcome(appended, n, "ok", FALSE, back)

\* emplace_back without the relocation of an out-of-order record
emplace_back_append(d, n, k) ==
    Outcome(Append(d, Record(k)), n, "ok", FALSE, Len(d) + 1)

\* reference emplace_back(Args&&...), the arguments building a record of key
\* k; the result it is the position of the record the reference designates.
emplace_back(d, n, k) ==
    LET appended == Append(d, Record(k))
        back     == Len(appended)
    IN  IF empty(d) THEN Outcome(appended, n, "ok", FALSE, back)
        ELSE LET prevBack == d[Len(d)]
             IN  IF IsDeleted(prevBack)
                 THEN Outcome(appended, n, "aborted", FALSE, 0)
                 ELSE IF k <= GetKey(prevBack)
                 THEN IF ~(k < GetKey(prevBack))
                      THEN Outcome(appended, n, "aborted", FALSE, 0)
                      ELSE LET it == DoFindUnchecked(appended, 1, back, k)
                           IN  IF ~(GetKey(appended[it]) > k /\ it # back)
                               THEN Outcome(appended, n, "aborted", FALSE, 0)
                               ELSE LET moved  == StdEmplace(appended, it, appended[back])
                                        popped == SubSeq(moved, 1, Len(moved) - 1)
                                    IN  IF ValidateEdge(popped, Len(popped))
                                        THEN Outcome(popped, n, "ok", FALSE, it)
                                        ELSE Outcome(popped, n, "aborted", FALSE, 0)
                 ELSE Outcome(appended, n, "ok", FALSE, back)

\* emplace_front with its assertions compiled out
emplace_front_unasserted(d, n, k) ==
    Outcome(<<Record(k)>> \o d, n, "ok", FALSE, 1)

\* reference emplace_front(Args&&...)
emplace_front(d, n, k) ==
    LET pushed == <<Record(k)>> \o d
    IN  IF empty(d) \/ (~IsDeleted(Head(d)) /\ k < GetKey(Head(d)))
        THEN Outcome(pushed, n, "ok", FALSE, 1)
        ELSE Outcome(pushed, n, "aborted", FALSE, 0)

\* iterator find(key_type k): the base position of the filter iterator.
find(d, n, k) ==
    LET f == DoFind(d, k)
    IN  IF ~f.asserts THEN Outcome(d, n, "aborted", FALSE, 0)
        ELSE Outcome(d, n, "ok", f.found, MakeFilteredIter(d, f.it))

\* find_front that returns the iterator's position counted from 1
find_front_offbyone(d, n, userKey) ==
    IF ~empty(d)
    THEN IF GetKey(Head(d)) = userKey
         THEN Outcome(d, n, "ok", TRUE, MIN_VALID_INDEX)
         ELSE LET f == DoFind(d, userKey)
              IN  IF f.found THEN Outcome(d, n, "ok", TRUE, f.it)
                  ELSE Outcome(d, n, "ok", FALSE, INVALID_INDEX)
    ELSE Outcome(d, n, "ok", FALSE, INVALID_INDEX)

\* quick_key_type find_front(key_type userKey): the m_index returned.
find_front(d, n, userKey) ==
    IF ~empty(d)
    THEN IF GetKey(Head(d)) = userKey
         THEN Outcome(d, n, "ok", TRUE, MIN_VALID_INDEX)
         ELSE LET f == DoFind(d, userKey)
              IN  IF ~f.asserts THEN Outcome(d, n, "aborted", FALSE, 0)
                  ELSE IF f.found THEN Outcome(d, n, "ok", TRUE, f.it - 1)
                  ELSE Outcome(d, n, "ok", FALSE, INVALID_INDEX)
    ELSE Outcome(d, n, "ok", FALSE, INVALID_INDEX)

\* quick_key_type::is_valid() / is_front()
is_valid(index) == index >= MIN_VALID_INDEX

is_front(index) == index = MIN_VALID_INDEX


\* What a read of memory outside the stored range can give: a record that
\* reads as deleted, one that reads as live, or a fault.
OutOfRangeReads == {"deleted", "live", "fault"}

\* QuickKeyToIterator(this, qk): begin() + m_index is dereferenced without a
\* comparison with the stored range.  The result it is the base position of
\* the filter iterator returned, ok tells whether it differs from end().
QuickKeyToIterator(d, n, index, read) ==
    IF is_valid(index)
    THEN IF index < Len(d)
         THEN IF ~IsDeleted(d[1 + index])
              THEN Outcome(d, n, "ok", TRUE, MakeFilteredIter(d, 1 + index))
              ELSE Outcome(d, n, "ok", FALSE, End(d))
         ELSE IF read = "fault" THEN Outcome(d, n, "undefined", FALSE, 0)
              ELSE IF read = "live"
              THEN Outcome(d, n, "ok", 1 + index # End(d), 1 + index)
              ELSE Outcome(d, n, "ok", FALSE, End(d))
    ELSE Outcome(d, n, "ok", FALSE, End(d))

\* at(quick_key_type) / operator[](quick_key_type): StdDeque::at(m_index)
\* throws std::out_of_range for an index outside the stored range (ok is
\* FALSE then); otherwise it is the key of the record referred to.
GetByQuickKey(d, n, index) ==
    IF index >= 0 /\ index < Len(d)
    THEN Outcome(d, n, "ok", TRUE, GetKey(d[1 + index]))
    ELSE Outcome(d, n, "ok", FALSE, 0)

----------------------------------------------------------------------------
\* Copying.  The outcome of a copy is the status and the container written.

CopyOutcome(st, d, n) == [status |-> st, deque |-> d, erased |-> n]

\* T(): a default-constructed record, as StdDeque::resize appends
DefaultRecord == [key |-> 0, del |-> FALSE]

\* What front() or back() of an empty StdDeque, which is undefined, can do:
\* bind a reference that is never read, or fault.
EmptyEdgeReads == {"unread", "fault"}

\* begin() / cbegin() and end() / cend(): ValidateEdge(this->front()),
\* ValidateEdge(this->back()) and then the filter iterator.  The result is
\* the status after the two calls.
BeginEnd(d, read) ==
    IF empty(d)
    THEN IF read = "fault" THEN "undefined" ELSE "ok"
    ELSE IF ValidateEdge(d, 1) /\ ValidateEdge(d, Len(d)) THEN "ok"
         ELSE "aborted"

\* StdDeque(first, last, alloc) over the filter iterators first = begin and
\* last = end of d: the records the traversal yields, in order.
RECURSIVE FilteredRange(_, _)
FilteredRange(d, it) ==
    IF it = End(d) THEN <<>>
    ELSE <<d[it]>> \o FilteredRange(d, MakeFilteredIter(d, it + 1))

\* InstrusiveSortedDeque(const InstrusiveSortedDeque& other), other = [d, n]
CopyConstructor(d, n, read) ==
    LET st == BeginEnd(d, read)
    IN  IF st = "ok"
        THEN CopyOutcome("ok", FilteredRange(d, MakeFilteredIter(d, 1)), 0)
        ELSE CopyOutcome(st, <<>>, 0)

\* StdDeque::resize(count)
Resize(d, count) ==
    IF count <= Len(d) THEN SubSeq(d, 1, count)
    ELSE d \o [i \in 1..(count - Len(d)) |-> DefaultRecord]

\* std::copy_if(first, last, result, pred) from one deque into another
RECURSIVE CopyIf(_, _, _, _)
CopyIf(src, first, dst, result) ==
    IF first = End(src) THEN dst
    ELSE IF FilterPredicate(src[first])
         THEN CopyIf(src, first + 1, [dst EXCEPT ![result] = src[first]], result + 1)
         ELSE CopyIf(src, first + 1, dst, result)

\* Clone(other) on a container that stores this_d, other being a different
\* object [d, n].  copy_if writes one record for each live record of other;
\* writing behind the resized range is undefined.
Clone(this_d, d, n) ==
    LET sz == size(d, n)
    IN  IF ~sz.asserts THEN CopyOutcome("aborted", this_d, 0)
        ELSE LET resized == Resize(this_d, sz.value)
             IN  IF Cardinality({i \in 1..Len(d) : FilterPredicate(d[i])})
                      > Len(resized)
                 THEN CopyOutcome("undefined", resized, 0)
                 ELSE CopyOutcome("ok", CopyIf(d, 1, resized, 1), 0)

\* Clone(other) with other being *this: resize(size()) acts on the deque
\* that copy_if then reads, and copy_if writes into the range it reads.
Clone_self(d, n) ==
    LET sz == size(d, n)
    IN  IF ~sz.asserts THEN CopyOutcome("aborted", d, n)
        ELSE LET resized == Resize(d, sz.value)
             IN  CopyOutcome("ok", CopyIf(resized, 1, resized, 1), 0)

\* operator=(InstrusiveSortedDeque&& other): other is an lvalue in the body,
\* so StdDeque::operator= copies every stored record; the counter is copied.
MoveAssignment(d, n) == CopyOutcome("ok", d, n)

----------------------------------------------------------------------------
Init ==
    /\ deque = <<>>
    /\ m_nMarkedAsErased = 0
    /\ status = "ok"
    /\ qk = INVALID_INDEX
    /\ call = [name |-> "InstrusiveSortedDeque", k |-> 0, ok |-> FALSE, it |-> 0]
    /\ other = <<>>
    /\ other_nMarkedAsErased = 0

Apply(name, k, r) ==
    /\ deque' = r.deque
    /\ m_nMarkedAsErased' = r.erased
    /\ status' = r.status
    /\ call' = [name |-> name, k |-> k, ok |-> r.ok, it |-> r.it]

EraseKey ==
    \E k \in Keys :
        /\ status = "ok"
        /\ Apply("erase", k, erase_key(deque, m_nMarkedAsErased, k))
        /\ UNCHANGED <<qk, other, other_nMarkedAsErased>>

\* erase(qk) with the quick key the caller holds
EraseQuickKey ==
    /\ status = "ok"
    /\ Apply("erase_qk", qk, erase_quick_key(deque, m_nMarkedAsErased, qk))
    /\ UNCHANGED <<qk, other, other_nMarkedAsErased>>

PopFront ==
    /\ status = "ok"
    /\ Apply("pop_front", 0, pop_front(deque, m_nMarkedAsErased))
    /\ UNCHANGED <<qk, other, other_nMarkedAsErased>>

PopBack ==
    /\ status = "ok"
    /\ Apply("pop_back", 0, pop_back(deque, m_nMarkedAsErased))
    /\ UNCHANGED <<qk, other, other_nMarkedAsErased>>

Clear ==
    /\ status = "ok"
    /\ Apply("clear", 0, clear(deque, m_nMarkedAsErased))
    /\ UNCHANGED <<qk, other, other_nMarkedAsErased>>

EmplaceBack ==
    \E k \in Keys :
        /\ status = "ok"
        /\ Apply("emplace_back", k, emplace_back(deque, m_nMarkedAsErased, k))
        /\ UNCHANGED <<qk, other, other_nMarkedAsErased>>

EmplaceFront ==
    \E k \in Keys :
        /\ status = "ok"
        /\ Apply("emplace_front", k, emplace_front(deque, m_nMarkedAsErased, k))
        /\ UNCHANGED <<qk, other, other_nMarkedAsErased>>

Find ==
    \E k \in Keys :
        /\ status = "ok"
        /\ Apply("find", k, find(deque, m_nMarkedAsErased, k))
        /\ UNCHANGED <<qk, other, other_nMarkedAsErased>>

\* qk = find_front(k): the caller keeps the quick key
FindFront ==
    \E k \in Keys :
        /\ status = "ok"
        /\ LET r == find_front(deque, m_nMarkedAsErased, k)
           IN  /\ Apply("find_front", k, r)
               /\ qk' = IF r.status = "ok" THEN r.it ELSE qk
        /\ UNCHANGED <<other, other_nMarkedAsErased>>

Size ==
    /\ status = "ok"
    /\ LET r == size(deque, m_nMarkedAsErased)
       IN  Apply("size", 0,
                 Outcome(deque, m_nMarkedAsErased,
                         IF r.asserts THEN "ok" ELSE "aborted", FALSE, r.value))
    /\ UNCHANGED <<qk, other, other_nMarkedAsErased>>

\* quick_key_to_iterator(qk) with the quick key the caller holds
QuickKeyToIter ==
    \E read \in OutOfRangeReads :
        /\ status = "ok"
        /\ Apply("quick_key_to_iterator", qk,
                 QuickKeyToIterator(deque, m_nMarkedAsErased, qk, read))
        /\ UNCHANGED <<qk, other, other_nMarkedAsErased>>

\* at(qk) with the quick key the caller holds
At ==
    /\ status = "ok"
    /\ Apply("at", qk, GetByQuickKey(deque, m_nMarkedAsErased, qk))
    /\ UNCHANGED <<qk, other, other_nMarkedAsErased>>

Next ==
    \/ EmplaceBack
    \/ EmplaceFront
    \/ EraseKey
    \/ EraseQuickKey
    \/ PopFront
    \/ PopBack
    \/ Clear
    \/ Find
    \/ FindFront
    \/ Size
    \/ QuickKeyToIter
    \/ At

Spec == Init /\ [][Next]_vars

----------------------------------------------------------------------------
\* Two containers: other is built from, or assigned from, this container.

ApplyCopy(name, r) ==
    /\ other' = r.deque
    /\ other_nMarkedAsErased' = r.erased
    /\ status' = r.status
    /\ call' = [name |-> name, k |-> 0, ok |-> FALSE, it |-> 0]
    /\ UNCHANGED <<deque, m_nMarkedAsErased, qk>>

\* InstrusiveSortedDeque other(c)
CopyConstruct ==
    \E read \in EmptyEdgeReads :
        /\ status = "ok"
        /\ ApplyCopy("copy_construct",
                     CopyConstructor(deque, m_nMarkedAsErased, read))

\* other = c
CopyAssign ==
    /\ status = "ok"
    /\ ApplyCopy("copy_assign", Clone(other, deque, m_nMarkedAsErased))

\* other = std::move(c)
MoveAssign ==
    /\ status = "ok"
    /\ ApplyCopy("move_assign", MoveAssignment(deque, m_nMarkedAsErased))

NextCopy ==
    \/ EmplaceBack
    \/ EmplaceFront
    \/ EraseKey
    \/ PopFront
    \/ PopBack
    \/ Clear
    \/ CopyConstruct
    \/ CopyAssign
    \/ MoveAssign

SpecCopy == Init /\ [][NextCopy]_vars

\* c = c
SelfAssign ==
    /\ status = "ok"
    /\ LET r == Clone_self(deque, m_nMarkedAsErased)
       IN  Apply("self_assign", 0,
                 Outcome(r.deque, r.erased, r.status, FALSE, 0))
    /\ UNCHANGED <<qk, other, other_nMarkedAsErased>>

\* The calls that build a container, until it is assigned to itself
Building == call.name # "self_assign"

NextSelf ==
    \/ Building /\ EmplaceBack
    \/ Building /\ EmplaceFront
    \/ Building /\ EraseKey
    \/ Building /\ PopFront
    \/ Building /\ PopBack
    \/ Building /\ Clear
    \/ Building /\ Size
    \/ SelfAssign

SpecSelf == Init /\ [][NextSelf]_vars

----------------------------------------------------------------------------
\* Vocabulary of the properties

Ok == status = "ok"

Positions(d) == 1..Len(d)

\* The live-record sequence: what a forward traversal yields.
Live(d) == SelectSeq(d, LAMBDA r : ~r.del)

Tombstones(d) == {i \in Positions(d) : d[i].del}

Stored(d, k) == \E i \in Positions(d) : d[i].key = k

HasLive(d, k) == \E i \in Positions(d) : d[i].key = k /\ ~d[i].del

Interior(d, i) == 1 < i /\ i < Len(d)

Ascending(d) == \A i, j \in Positions(d) : i < j => d[i].key <= d[j].key

\* s without its records of key k, the others in the same order
Without(s, k) == SelectSeq(s, LAMBDA r : r.key # k)

----------------------------------------------------------------------------
\* C1: while the container is usable and physically non-empty, its physically
\* first record and its physically last record are both not deleted.
C1_EdgesLive ==
    (Ok /\ deque # <<>>) => (~deque[1].del /\ ~deque[Len(deque)].del)

\* an erase has compacted an edge and left a tombstone in the interior
C1_Witness ==
    /\ Ok /\ call.name = "erase" /\ call.ok
    /\ ~Stored(deque, call.k)
    /\ Tombstones(deque) # {}

\* C2: m_nMarkedAsErased is the number of stored records whose deleted flag
\* is set, size() is the number of live records, the counter is 0 when
\* capacity() <= 1, size() > 1 when capacity() > 1, and a call of size()
\* never fails an assertion.
C2_CounterExact ==
    /\ Ok =>
        /\ m_nMarkedAsErased = Cardinality(Tombstones(deque))
        /\ size(deque, m_nMarkedAsErased).value = Len(Live(deque))
        /\ capacity(deque) <= 1 => m_nMarkedAsErased = 0
        /\ capacity(deque) > 1 => size(deque, m_nMarkedAsErased).value > 1
    /\ call.name = "size" => (Ok /\ call.it = Len(Live(deque)))

\* size() was called on a container that stores two tombstones
C2_Witness ==
    /\ Ok /\ call.name = "size"
    /\ m_nMarkedAsErased = 2
    /\ call.it = capacity(deque) - 2

\* C3: the stored records, tombstones included, are in ascending key order,
\* and so are the live records a forward traversal yields.
C3_Ascending ==
    Ok => (Ascending(deque) /\ Ascending(Live(deque)))

\* emplace_back has relocated a record to the left of a tombstone
C3_Witness ==
    /\ Ok /\ call.name = "emplace_back"
    /\ call.it < Len(deque) /\ deque[call.it].key = call.k
    /\ \E i \in Positions(deque) : i > call.it /\ deque[i].del

\* C4: erase(k) of a key that has a live record returns true, lowers size()
\* by exactly 1 and removes exactly the record of key k from the live
\* sequence, the other live records keeping their relative order.
C4_EraseLive ==
    [][(Ok /\ call'.name = "erase" /\ HasLive(deque, call'.k)) =>
        /\ status' = "ok"
        /\ call'.ok
        /\ size(deque', m_nMarkedAsErased').value
             = size(deque, m_nMarkedAsErased).value - 1
        /\ Live(deque') = Without(Live(deque), call'.k)
        /\ Len(Live(deque')) = Len(Live(deque)) - 1]_vars

\* erase(k) returned true and the record of key k is now an interior tombstone
C4_Witness ==
    /\ Ok /\ call.name = "erase" /\ call.ok
    /\ \E i \in Positions(deque) :
          deque[i].key = call.k /\ deque[i].del /\ Interior(deque, i)

\* C5: find(k) called immediately after an erase(k) that returned true
\* returns the end sentinel, whether the record was the front, the back or
\* an interior record whose tombstone stays stored.
C5_FindAfterErase ==
    [][(Ok /\ call.name = "erase" /\ call.ok
           /\ call'.name = "find" /\ call'.k = call.k) =>
        (status' = "ok" /\ call'.it = End(deque'))]_vars

\* C6: erase(k) of a key that has no live record returns false and leaves
\* the physical sequence, every deleted flag and m_nMarkedAsErased unchanged.
C6_EraseAbsent ==
    [][(Ok /\ call'.name = "erase" /\ ~HasLive(deque, call'.k)) =>
        /\ status' = "ok"
        /\ ~call'.ok
        /\ deque' = deque
        /\ m_nMarkedAsErased' = m_nMarkedAsErased]_vars

\* erase(k) returned false for a key stored only as an interior tombstone
C6_Witness ==
    /\ Ok /\ call.name = "erase" /\ ~call.ok
    /\ \E i \in Positions(deque) :
          deque[i].key = call.k /\ deque[i].del /\ Interior(deque, i)

\* C7: find(k) returns an iterator designating the live record of key k when
\* there is one, however many tombstones lie before or after it, and the end
\* sentinel when no record of key k is physically stored.
C7_Find ==
    call.name = "find" =>
        /\ Ok
        /\ HasLive(deque, call.k) =>
              /\ call.it # End(deque)
              /\ deque[call.it].key = call.k
              /\ ~deque[call.it].del
        /\ ~Stored(deque, call.k) => call.it = End(deque)

\* find(k) found a live record with a tombstone on either side of it
C7_Witness ==
    /\ Ok /\ call.name = "find" /\ call.it # End(deque)
    /\ deque[call.it].key = call.k
    /\ \E i, j \in Tombstones(deque) : i < call.it /\ call.it < j

\* C8: find_front(k) of a key that has no live record returns an invalid
\* quick key, also when a tombstone of key k is still stored.
C8_FindFrontAbsent ==
    (Ok /\ call.name = "find_front" /\ ~HasLive(deque, call.k)) =>
        ~is_valid(call.it)

\* C9: emplace_back(k) on a non-empty container, k smaller than the back key
\* and different from every stored key, puts the new record at its
\* lower-bound position among the stored records: the physical sequence is
\* ascending, the live sequence is the previous one with k in sorted place,
\* the back is the previous back, size() grew by 1 and m_nMarkedAsErased is
\* unchanged.
C9_Relocate ==
    [][(Ok /\ call'.name = "emplace_back" /\ deque # <<>>
           /\ call'.k < deque[Len(deque)].key /\ ~Stored(deque, call'.k)) =>
        LET k   == call'.k
            pos == 1 + Cardinality({i \in Positions(deque) : deque[i].key < k})
            smaller == SelectSeq(Live(deque), LAMBDA r : r.key < k)
            greater == SelectSeq(Live(deque), LAMBDA r : r.key > k)
        IN  /\ status' = "ok"
            /\ deque' = SubSeq(deque, 1, pos - 1) \o <<[key |-> k, del |-> FALSE]>>
                          \o SubSeq(deque, pos, Len(deque))
            /\ call'.it = pos
            /\ Ascending(deque')
            /\ Live(deque') = smaller \o <<[key |-> k, del |-> FALSE]>> \o greater
            /\ deque'[Len(deque')] = deque[Len(deque)]
            /\ size(deque', m_nMarkedAsErased').value
                 = size(deque, m_nMarkedAsErased).value + 1
            /\ m_nMarkedAsErased' = m_nMarkedAsErased]_vars

\* emplace_back(k) has relocated the record between two tombstones
C9_Witness ==
    /\ Ok /\ call.name = "emplace_back" /\ call.it < Len(deque)
    /\ deque[call.it].key = call.k
    /\ \E i, j \in Tombstones(deque) : i < call.it /\ call.it < j

C12_QuickKeyToIterator ==
    (Ok /\ call.name = "quick_key_to_iterator") =>
        IF is_valid(call.k) /\ call.k < Len(deque) /\ ~deque[1 + call.k].del
        THEN call.it = 1 + call.k
        ELSE call.it = End(deque)

\* C13: find_front(k) of a key that has a live record returns a valid quick
\* key whose index is the physical position of that record, tombstones
\* before it counted; at(qk) used immediately gives the record of key k;
\* is_front() holds exactly when k is the key of the physical front.
C13_FindFrontLive ==
    [][/\ (Ok /\ call'.name = "find_front" /\ HasLive(deque, call'.k)) =>
            /\ status' = "ok"
            /\ deque' = deque
            /\ is_valid(call'.it)
            /\ qk' = call'.it
            /\ call'.it = Cardinality({i \in Positions(deque) :
                                          deque[i].key < call'.k})
            /\ deque[1 + call'.it].key = call'.k
            /\ ~deque[1 + call'.it].del
            /\ is_front(call'.it) <=> (deque[1].key = call'.k)
       /\ (Ok /\ call.name = "find_front" /\ HasLive(deque, call.k)
              /\ call'.name = "at") =>
            /\ status' = "ok"
            /\ call'.ok
            /\ call'.it = call.k]_vars

\* at(qk) has read a live record that has a tombstone before it
C13_Witness ==
    /\ Ok /\ call.name = "at" /\ call.ok /\ call.k = qk
    /\ ~deque[1 + qk].del /\ deque[1 + qk].key = call.it
    /\ \E i \in Tombstones(deque) : i < 1 + qk

\* C14: emplace_front(k) on a non-empty container succeeds only for k
\* strictly smaller than the front key: the new live record is then the
\* physical front, size() grows by 1 and nothing else changes; for k greater
\* than or equal to the front key the call fails an assertion.
C14_EmplaceFront ==
    [][(Ok /\ call'.name = "emplace_front" /\ deque # <<>>) =>
        IF call'.k < deque[1].key
        THEN /\ status' = "ok"
             /\ deque' = <<[key |-> call'.k, del |-> FALSE]>> \o deque
             /\ call'.it = 1
             /\ m_nMarkedAsErased' = m_nMarkedAsErased
             /\ size(deque', m_nMarkedAsErased').value
                  = size(deque, m_nMarkedAsErased).value + 1
        ELSE status' = "aborted"]_vars

\* emplace_front has put a new front before records that include a tombstone
C14_Witness ==
    /\ Ok /\ call.name = "emplace_front"
    /\ deque[1].key = call.k
    /\ Tombstones(deque) # {}

\* C15: on a non-empty container pop_front removes exactly the first live
\* record and pop_back exactly the last one; the tombstones that became
\* adjacent to the popped end are discarded in the same call, the counter
\* decremented once for each, and both physical edges are live on return.
C15_Pop ==
    [][/\ (Ok /\ call'.name = "pop_front" /\ deque # <<>>) =>
            LET rest == {i \in Positions(deque) : i > 1 /\ ~deque[i].del}
                j    == IF rest = {} THEN Len(deque) + 1
                        ELSE CHOOSE i \in rest : \A m \in rest : i <= m
            IN  /\ status' = "ok"
                /\ deque' = SubSeq(deque, j, Len(deque))
                /\ m_nMarkedAsErased' = m_nMarkedAsErased - (j - 2)
                /\ call'.it = j - 1
                /\ Live(deque') = Tail(Live(deque))
                /\ deque' # <<>> =>
                      (~deque'[1].del /\ ~deque'[Len(deque')].del)
       /\ (Ok /\ call'.name = "pop_back" /\ deque # <<>>) =>
            LET rest == {i \in Positions(deque) : i < Len(deque) /\ ~deque[i].del}
                j    == IF rest = {} THEN 0
                        ELSE CHOOSE i \in rest : \A m \in rest : i >= m
            IN  /\ status' = "ok"
                /\ deque' = SubSeq(deque, 1, j)
                /\ m_nMarkedAsErased' = m_nMarkedAsErased - (Len(deque) - 1 - j)
                /\ call'.it = Len(deque) - j
                /\ Live(deque') = SubSeq(Live(deque), 1, Len(Live(deque)) - 1)
                /\ deque' # <<>> =>
                      (~deque'[1].del /\ ~deque'[Len(deque')].del)]_vars

\* pop_front has discarded the front and two tombstones behind it
C15_Witness ==
    /\ Ok /\ call.name = "pop_front" /\ call.it = 3
    /\ Len(deque) >= 2 /\ m_nMarkedAsErased = 0

\* C16: erase(k) of a live record that is neither the physical front nor
\* the physical back leaves capacity() and every record's position and key
\* unchanged, sets only that record's deleted flag and adds exactly 1 to
\* m_nMarkedAsErased; in any later call except clear(), which discards every
\* record, a tombstone stays stored, still deleted, as long as a live record
\* remains on either side of it, and is discarded in the call that leaves it
\* without one.
C16_InteriorErase ==
    [][/\ (Ok /\ call'.name = "erase"
              /\ \E i \in Positions(deque) :
                    Interior(deque, i) /\ deque[i].key = call'.k /\ ~deque[i].del) =>
            LET i == CHOOSE p \in Positions(deque) : deque[p].key = call'.k
            IN  /\ status' = "ok"
                /\ call'.ok
                /\ call'.it = 0
                /\ deque' = [deque EXCEPT ![i].del = TRUE]
                /\ m_nMarkedAsErased' = m_nMarkedAsErased + 1
       /\ (Ok /\ status' = "ok" /\ call'.name # "clear") =>
            \A i \in Tombstones(deque) :
                LET t == deque[i].key
                    between ==
                        /\ \E p \in Positions(deque') :
                              deque'[p].key < t /\ ~deque'[p].del
                        /\ \E p \in Positions(deque') :
                              deque'[p].key > t /\ ~deque'[p].del
                IN  /\ Stored(deque', t) <=> between
                    /\ ~HasLive(deque', t)]_vars

\* erase(k) left a tombstone next to an older tombstone, both in the interior
C16_Witness ==
    /\ Ok /\ call.name = "erase" /\ call.ok /\ call.it = 0
    /\ \E i \in Positions(deque) :
          /\ deque[i].key = call.k /\ deque[i].del
          /\ i < Len(deque) /\ deque[i + 1].del

\* The quick key index designates the live record of key k.
Designates(d, index, k) ==
    /\ index >= 0 /\ index < Len(d)
    /\ d[1 + index].key = k /\ ~d[1 + index].del

\* The step is one after which C17 promises nothing for the quick key held:
\* pop_front, emplace_front, an erase that discards the front, or a step
\* that removes the record of key k.  (find_front replaces the quick key the
\* caller holds, clear removes every record.)
C17_Excluded(k) ==
    \/ call'.name \in {"pop_front", "emplace_front", "find_front"}
    \/ call'.name \in {"erase", "erase_qk"} /\ ~Stored(deque', deque[1].key)
    \/ ~HasLive(deque', k)

\* C17 as stated: a quick key that find_front(k) returned for a live key k
\* still designates the record of key k after every call other than a
\* pop_front, an emplace_front, an erase that discards the front and a call
\* that removes k; in particular after every emplace_back.
C17_QuickKeyStable ==
    [][\A k \in Keys :
          (Ok /\ status' = "ok" /\ Designates(deque, qk, k) /\ ~C17_Excluded(k))
              => Designates(deque', qk', k)]_vars

\* C17 amended: as stated, except that an emplace_back of a key smaller than
\* k, which is relocated before the record of k, is excluded as well.
C17_QuickKeyStableAmended ==
    [][\A k \in Keys :
          (Ok /\ status' = "ok" /\ Designates(deque, qk, k) /\ ~C17_Excluded(k)
              /\ ~(call'.name = "emplace_back" /\ call'.k < k))
              => Designates(deque', qk', k)]_vars

\* the quick key designates an interior live record after an emplace_back
\* that was relocated behind it, a tombstone lying before it
C17_Witness ==
    /\ Ok /\ call.name = "emplace_back"
    /\ qk > 0 /\ qk + 1 < call.it /\ call.it < Len(deque)
    /\ ~deque[1 + qk].del
    /\ \E i \in Tombstones(deque) : i < 1 + qk

\* C18: erase(qk) called immediately after a find_front(k) that returned a
\* valid quick key qk returns what erase(k) returns on the same state and
\* leaves the same physical sequence, deleted flags and m_nMarkedAsErased,
\* the compaction included.
C18_EraseQuickKeyAsKey ==
    [][(Ok /\ call.name = "find_front" /\ is_valid(call.it)
           /\ call'.name = "erase_qk") =>
        LET r == erase_key(deque, m_nMarkedAsErased, call.k)
        IN  /\ call'.k = call.it
            /\ status' = r.status
            /\ call'.ok = r.ok
            /\ deque' = r.deque
            /\ m_nMarkedAsErased' = r.erased]_vars

\* erase(qk) has erased a record and the compaction discarded three records
C18_Witness ==
    /\ Ok /\ call.name = "erase_qk" /\ call.ok /\ call.it = 3
    /\ call.k = qk /\ deque # <<>>

\* C11: copy-constructing a container from this one, or copy-assigning this
\* one to a different container, whatever that container stored, yields a
\* container with m_nMarkedAsErased = 0, no tombstone, and a physical
\* sequence equal to this container's live sequence; this container is
\* unchanged.
C11_Clone ==
    [][(Ok /\ call'.name \in {"copy_construct", "copy_assign"}) =>
        /\ status' = "ok"
        /\ other_nMarkedAsErased' = 0
        /\ Tombstones(other') = {}
        /\ other' = Live(deque)
        /\ deque' = deque
        /\ m_nMarkedAsErased' = m_nMarkedAsErased]_vars

\* C19: c = c leaves the live sequence of c unchanged and c with live
\* physical edges and m_nMarkedAsErased equal to the number of stored
\* tombstones.
C19_SelfAssign ==
    [][(Ok /\ call'.name = "self_assign"
           /\ m_nMarkedAsErased = Cardinality(Tombstones(deque))
           /\ (deque # <<>> => ~deque[1].del /\ ~deque[Len(deque)].del)) =>
        /\ status' = "ok"
        /\ Live(deque') = Live(deque)
        /\ deque' # <<>> => (~deque'[1].del /\ ~deque'[Len(deque')].del)
        /\ m_nMarkedAsErased' = Cardinality(Tombstones(deque'))]_vars

====
